---- MODULE Spec2Model ----
(***************************************************************************)
(* Model of gwbenchmark2g: the metadata codec (io.py), the level-0         *)
(* simulation generator (simulate.py) and the configuration classes        *)
(* (config.py).                                                            *)
(*                                                                         *)
(* Python values are tagged records [t, v]: t is the runtime type and v an *)
(* integer standing for the value: a float is kept rounded to the nearest  *)
(* integer (4.0 is [t |-> "float", v |-> 4]) and a text value is numbered. *)
(* A dict is a function from its keys, and a value that is a dict or None  *)
(* is [none, d].  An Arrow map value is [null, items] with items the       *)
(* sequence of <<key, value>> pairs that to_pylist returns for it.         *)
(***************************************************************************)
EXTENDS Integers, Sequences, FiniteSets, TLC

VARIABLES file, saved, result, gen, all_metadata, raw, parsed

vars == <<file, saved, result, gen, all_metadata, raw, parsed>>

(***************************************************************************)
(* Bounds of the model.                                                    *)
(***************************************************************************)
\* longest list handed to save_metadata
MaxRecords == 2
\* largest n_simulations of a configuration
MaxSims == 2

(***************************************************************************)
(* Python values.                                                          *)
(***************************************************************************)
PyNone == [t |-> "none", v |-> 0]

PyInt(n) == [t |-> "int", v |-> n]

PyFloat(n) == [t |-> "float", v |-> n]

PyStr(n) == [t |-> "str", v |-> n]

\* a non-empty list of numbers: a value that is neither int, float nor text
PyList == [t |-> "list", v |-> 0]

\* what a failed Arrow conversion of one value yields
ConvError == [t |-> "error", v |-> 0]

IsNumber(x) == x.t \in {"int", "float"}

\* Python's == on scalars: 1 == 1.0, None == None, text == text
PyEq(x, y) ==
    IF IsNumber(x) /\ IsNumber(y) THEN x.v = y.v
    ELSE x.t = y.t /\ x.v = y.v

EmptyDict == [k \in {} |-> PyNone]

\* None where a dict may stand
NoneDict == [none |-> TRUE, d |-> EmptyDict, keys |-> <<>>]

\* a dict: its mapping and its keys in insertion order
Dict(keys, d) == [none |-> FALSE, d |-> d, keys |-> keys]

\* {} and dict()
NewDict == Dict(<<>>, EmptyDict)

\* == on two dicts of scalars
DictEq(a, b) ==
    /\ DOMAIN a = DOMAIN b
    /\ \A k \in DOMAIN a : PyEq(a[k], b[k])

\* == on two values that are a dict of scalars or None
OptDictEq(a, b) ==
    /\ a.none = b.none
    /\ (~a.none => DictEq(a.d, b.d))

\* == on two values that are a dict of (dict or None), or None
NestedDictEq(a, b) ==
    /\ a.none = b.none
    /\ (~a.none =>
          /\ DOMAIN a.d = DOMAIN b.d
          /\ \A k \in DOMAIN a.d : OptDictEq(a.d[k], b.d[k]))

\* dict.items() as a list of (key, value) tuples, in insertion order
Items(x) == [i \in DOMAIN x.keys |-> <<x.keys[i], x.d[x.keys[i]]>>]

\* x[k] = v: a new key goes last, a key already there keeps its place
SetItem(x, k, v) ==
    Dict(IF k \in DOMAIN x.d THEN x.keys ELSE Append(x.keys, k),
         [j \in DOMAIN x.d \cup {k} |-> IF j = k THEN v ELSE x.d[j]])

\* x.update(list of (key, value) tuples), tuple by tuple
RECURSIVE Update(_, _)
Update(x, items) ==
    IF items = <<>> THEN x
    ELSE Update(SetItem(x, Head(items)[1], Head(items)[2]), Tail(items))

\* dict(list of (key, value) tuples): the last tuple of a key wins
DictOf(items) == Update(NewDict, items)

(***************************************************************************)
(* InjectionMetaData (simulate.py).                                        *)
(***************************************************************************)
RequiredFields ==
    {"injection_parameters", "fixed_parameters", "waveform_kwargs", "seed",
     "detectors", "duration", "sampling_frequency"}

DefaultedFields == {"network_optimal_snr", "network_matched_filter_snr"}

AllFields == RequiredFields \cup DefaultedFields

\* the dataclass constructor called with keyword arguments kw: a TypeError
\* when a field without default is missing or a keyword is unknown
InjectionMetaData(kw) ==
    IF RequiredFields \subseteq DOMAIN kw /\ DOMAIN kw \subseteq AllFields
    THEN [ok |-> TRUE,
          obj |-> [f \in AllFields |-> IF f \in DOMAIN kw THEN kw[f] ELSE PyNone]]
    ELSE [ok |-> FALSE, obj |-> kw]

\* the dataclass's generated __eq__: the fields compared in order with ==
MetaEq(a, b) ==
    /\ OptDictEq(a.injection_parameters, b.injection_parameters)
    /\ OptDictEq(a.fixed_parameters, b.fixed_parameters)
    /\ OptDictEq(a.waveform_kwargs, b.waveform_kwargs)
    /\ PyEq(a.seed, b.seed)
    /\ NestedDictEq(a.detectors, b.detectors)
    /\ PyEq(a.duration, b.duration)
    /\ PyEq(a.sampling_frequency, b.sampling_frequency)
    /\ PyEq(a.network_optimal_snr, b.network_optimal_snr)
    /\ PyEq(a.network_matched_filter_snr, b.network_matched_filter_snr)

(***************************************************************************)
(* INJECTION_METADATA_SCHEMA and pyarrow's conversions (io.py).            *)
(***************************************************************************)
INJECTION_METADATA_SCHEMA ==
    <<[name |-> "injection_parameters", type |-> "map<string,double>", nullable |-> TRUE],
      [name |-> "waveform_kwargs", type |-> "struct", nullable |-> FALSE],
      [name |-> "seed", type |-> "int64", nullable |-> TRUE],
      [name |-> "detectors", type |-> "map<string,map<string,double>>", nullable |-> FALSE],
      [name |-> "duration", type |-> "double", nullable |-> FALSE],
      [name |-> "sampling_frequency", type |-> "double", nullable |-> FALSE],
      [name |-> "network_optimal_snr", type |-> "double", nullable |-> TRUE],
      [name |-> "network_matched_filter_snr", type |-> "double", nullable |-> TRUE]>>

\* the typed sub-maps of the waveform_kwargs struct, none of them nullable
WaveformKwargsCategories == <<"ints", "floats", "strings">>

SchemaNames == {INJECTION_METADATA_SCHEMA[i].name : i \in DOMAIN INJECTION_METADATA_SCHEMA}

SchemaField(n) ==
    INJECTION_METADATA_SCHEMA[CHOOSE i \in DOMAIN INJECTION_METADATA_SCHEMA :
                                INJECTION_METADATA_SCHEMA[i].name = n]

NullMap == [null |-> TRUE, items |-> <<>>]

ArrowMap(items) == [null |-> FALSE, items |-> items]

\* a Python number or None as a float64 value
ToDouble(x) ==
    CASE x.t = "none" -> PyNone
      [] IsNumber(x) -> PyFloat(x.v)
      [] OTHER -> ConvError

\* a Python int or None as an int64 value (text and lists do not convert)
ToInt64(x) ==
    CASE x.t = "none" -> PyNone
      [] x.t = "int" -> x
      [] OTHER -> ConvError

Converted(c) == [ok |-> c # ConvError, val |-> c]

Failed == [ok |-> FALSE, val |-> ConvError]

\* a dict (or None) as a map<string,double>: its items, each value a float64
ToMapDouble(x) ==
    IF x.none THEN [ok |-> TRUE, val |-> NullMap]
    ELSE LET its == Items(x)
             conv == [i \in DOMAIN its |-> <<its[i][1], ToDouble(its[i][2])>>]
         IN  IF \E i \in DOMAIN conv : conv[i][2] = ConvError
             THEN Failed
             ELSE [ok |-> TRUE, val |-> ArrowMap(conv)]

\* a dict of dicts (or None) as a map<string,map<string,double>>
ToMapMapDouble(x) ==
    IF x.none THEN [ok |-> TRUE, val |-> NullMap]
    ELSE LET its == Items(x)
             conv == [i \in DOMAIN its |-> <<its[i][1], ToMapDouble(its[i][2])>>]
         IN  IF \E i \in DOMAIN conv : ~conv[i][2].ok
             THEN Failed
             ELSE [ok |-> TRUE,
                   val |-> ArrowMap([i \in DOMAIN conv |-> <<conv[i][1], conv[i][2].val>>])]

\* one child of the struct: the dict's entry under the child's name.  A scalar
\* there is no sequence of pairs; None and a missing key give a null.
ToStructChild(d, category) ==
    IF category \notin DOMAIN d THEN [ok |-> TRUE, val |-> NullMap]
    ELSE IF d[category].t = "none" THEN [ok |-> TRUE, val |-> NullMap]
    ELSE Failed

\* a dict (or None) as the waveform_kwargs struct: the struct converter looks
\* up the names of the struct's fields and ignores every other key of the dict
ToStruct(x) ==
    IF x.none
    THEN [ok |-> TRUE,
          val |-> [null |-> TRUE, ints |-> NullMap, floats |-> NullMap, strings |-> NullMap]]
    ELSE LET c == [k \in {"ints", "floats", "strings"} |-> ToStructChild(x.d, k)]
         IN  IF \E k \in DOMAIN c : ~c[k].ok
             THEN Failed
             ELSE [ok |-> TRUE,
                   val |-> [null |-> FALSE, ints |-> c["ints"].val,
                            floats |-> c["floats"].val, strings |-> c["strings"].val]]

\* pa.array([value], type): the conversion of one value to a field's type
ToArrow(type, x) ==
    CASE type = "double" -> Converted(ToDouble(x))
      [] type = "int64" -> Converted(ToInt64(x))
      [] type = "map<string,double>" -> ToMapDouble(x)
      [] type = "map<string,map<string,double>>" -> ToMapMapDouble(x)
      [] type = "struct" -> ToStruct(x)

\* asdict(m): the fields of the dataclass as a dict
AsDict(m) == [f \in AllFields |-> m[f]]

\* pa.Table.from_pylist(rows, schema): per field of the schema the row's entry
\* of that name, converted to the field's type; other keys of the row are not
\* looked at and nullability is not checked
FromPylist(rows) ==
    LET conv == [i \in DOMAIN rows |->
                    [n \in SchemaNames |-> ToArrow(SchemaField(n).type, rows[i][n])]]
    IN  IF \E i \in DOMAIN conv : \E n \in SchemaNames : ~conv[i][n].ok
        THEN [ok |-> FALSE, table |-> <<>>]
        ELSE [ok |-> TRUE,
              table |-> [i \in DOMAIN conv |-> [n \in SchemaNames |-> conv[i][n].val]]]

(***************************************************************************)
(* The parquet file: pq.write_table and pq.read_table.                     *)
(***************************************************************************)
NoFile == [exists |-> FALSE, rows |-> <<>>]

\* a column whose values are stored as they are (no children)
IsLeaf(type) == type \in {"double", "int64"}

\* what parquet keeps of a value: a required (non-nullable) map has no level
\* for a null, so a null map in it is stored as the empty map
StoreValue(f, val) ==
    CASE f.type = "struct" ->
           [null |-> FALSE,
            ints |-> IF val.ints.null THEN ArrowMap(<<>>) ELSE val.ints,
            floats |-> IF val.floats.null THEN ArrowMap(<<>>) ELSE val.floats,
            strings |-> IF val.strings.null THEN ArrowMap(<<>>) ELSE val.strings]
      [] ~IsLeaf(f.type) /\ f.type # "struct" /\ ~f.nullable /\ val.null -> ArrowMap(<<>>)
      [] OTHER -> val

\* a plausible slip: the file the failed writer opened is not removed
WriteTableKeepsPartial(table) ==
    IF \E i \in DOMAIN table : \E n \in SchemaNames :
          /\ IsLeaf(SchemaField(n).type)
          /\ ~SchemaField(n).nullable
          /\ table[i][n] = PyNone
    THEN [ok |-> FALSE, file |-> [exists |-> TRUE, rows |-> <<>>]]
    ELSE [ok |-> TRUE,
          file |-> [exists |-> TRUE,
                    rows |-> [i \in DOMAIN table |->
                                [n \in SchemaNames |-> StoreValue(SchemaField(n), table[i][n])]]]]

\* pq.write_table(table, filepath): the destination is opened (an existing
\* file is truncated) and the columns are written; a null in a non-nullable
\* leaf column makes the writer fail, and write_table then removes the file
WriteTable(table) ==
    IF \E i \in DOMAIN table : \E n \in SchemaNames :
          /\ IsLeaf(SchemaField(n).type)
          /\ ~SchemaField(n).nullable
          /\ table[i][n] = PyNone
    THEN [ok |-> FALSE, file |-> NoFile]
    ELSE [ok |-> TRUE,
          file |-> [exists |-> TRUE,
                    rows |-> [i \in DOMAIN table |->
                                [n \in SchemaNames |-> StoreValue(SchemaField(n), table[i][n])]]]]

\* save_metadata(metadata, filepath): how it ends and what it does to the
\* destination.  "untouched": from_pylist raised, write_table was not called.
save_metadata(metadata) ==
    LET metadata_dicts == [i \in DOMAIN metadata |-> AsDict(metadata[i])]
        conv == FromPylist(metadata_dicts)
        w == WriteTable(conv.table)
    IN  IF ~conv.ok THEN [status |-> "ArrowInvalid", effect |-> "untouched", file |-> NoFile]
        ELSE IF ~w.ok THEN [status |-> "ArrowInvalid", effect |-> "removed", file |-> w.file]
        ELSE [status |-> "ok", effect |-> "written", file |-> w.file]

(***************************************************************************)
(* Decoding (io.py).                                                       *)
(***************************************************************************)
\* Python's truth value of a map read back: None and [] are false
Truthy(m) == ~m.null /\ Len(m.items) > 0

\* the waveform_kwargs branch: the sub-maps merged in the order ints, floats,
\* strings with dict.update
Reconstruct(value) ==
    LET r0 == NewDict
        r1 == IF Truthy(value.ints) THEN Update(r0, value.ints.items) ELSE r0
        r2 == IF Truthy(value.floats) THEN Update(r1, value.floats.items) ELSE r1
        r3 == IF Truthy(value.strings) THEN Update(r2, value.strings.items) ELSE r2
    IN  r3

\* a plausible slip: the detectors treated like injection_parameters, an
\* empty map read as None
ParseDetectorsOrNone(value) ==
    IF ~Truthy(value) THEN NoneDict
    ELSE DictOf([i \in DOMAIN value.items |->
                   <<value.items[i][1],
                     IF ~value.items[i][2].null
                     THEN DictOf(value.items[i][2].items)
                     ELSE NoneDict>>])

\* the detectors branch: the list of (name, list of tuples) as a dict of dicts
ParseDetectors(value) ==
    IF value.null THEN NewDict
    ELSE DictOf([i \in DOMAIN value.items |->
                   <<value.items[i][1],
                     IF ~value.items[i][2].null
                     THEN DictOf(value.items[i][2].items)
                     ELSE NoneDict>>])

_parse_metadata_dict(d) ==
    [key \in DOMAIN d |->
        CASE key = "injection_parameters" ->
               IF Truthy(d[key]) THEN DictOf(d[key].items) ELSE NoneDict
          [] key = "waveform_kwargs" ->
               IF ~d[key].null THEN Reconstruct(d[key]) ELSE NoneDict
          [] key = "detectors" -> ParseDetectors(d[key])
          [] OTHER -> d[key]]

\* a plausible slip in the range check: index 0 is turned away
read_single_metadata_raw_m(rows, row_index) ==
    IF row_index <= 0 \/ row_index >= Len(rows)
    THEN [status |-> "IndexError", message |-> <<row_index, Len(rows)>>, rows |-> <<>>]
    ELSE [status |-> "ok", message |-> <<>>, rows |-> <<rows[row_index + 1]>>]

\* read_single_metadata_raw(filepath, row_index) on a file of the given rows;
\* the IndexError's message names the index and the number of rows
read_single_metadata_raw(rows, row_index) ==
    IF row_index < 0 \/ row_index >= Len(rows)
    THEN [status |-> "IndexError", message |-> <<row_index, Len(rows)>>, rows |-> <<>>]
    ELSE [status |-> "ok", message |-> <<>>, rows |-> <<rows[row_index + 1]>>]

\* the list comprehension of read_metadata: the objects built so far, and
\* whether a constructor raised
RECURSIVE BuildAll(_)
BuildAll(rows) ==
    IF rows = <<>> THEN [status |-> "ok", objs |-> <<>>]
    ELSE LET m == InjectionMetaData(_parse_metadata_dict(Head(rows)))
             rest == BuildAll(Tail(rows))
         IN  IF ~m.ok THEN [status |-> "TypeError", objs |-> <<>>]
             ELSE IF rest.status # "ok" THEN rest
             ELSE [status |-> "ok", objs |-> <<m.obj>> \o rest.objs]

read_metadata(rows) == BuildAll(rows)

read_single_metadata(rows, row_index) ==
    LET r == read_single_metadata_raw(rows, row_index)
        m == InjectionMetaData(_parse_metadata_dict(r.rows[1]))
    IN  IF r.status # "ok" THEN [status |-> r.status, message |-> r.message, objs |-> <<>>]
        ELSE IF ~m.ok THEN [status |-> "TypeError", message |-> <<>>, objs |-> <<>>]
        ELSE [status |-> "ok", message |-> <<>>, objs |-> <<m.obj>>]

(***************************************************************************)
(* Configurations (config.py) and simulate_level_0 (simulate.py).          *)
(***************************************************************************)
\* Level0Config.fixed_parameters, each value rounded to an integer
Level0Fixed ==
    DictOf(<<<<"geocent_time", PyFloat(0)>>, <<"phase", PyFloat(0)>>, <<"psi", PyFloat(0)>>,
             <<"theta_jn", PyFloat(0)>>, <<"dec", PyFloat(2)>>, <<"ra", PyFloat(-2)>>>>)

\* Level1Config.fixed_parameters
Level1Fixed == DictOf(<<<<"geocent_time", PyFloat(0)>>>>)

\* a Level0Config or Level1Config with the class's defaults for duration,
\* sampling_frequency and fixed_parameters
LevelConfig(level, seed, blind, n_simulations, detectors) ==
    [level |-> level, seed |-> seed, blind |-> blind,
     n_simulations |-> n_simulations, detectors |-> detectors,
     duration |-> PyFloat(4), sampling_frequency |-> PyFloat(2048),
     fixed_parameters |-> IF level = 0 THEN Level0Fixed ELSE Level1Fixed]

DetectorLists == {<<>>, <<"H1">>, <<"H1", "L1">>, <<"L1", "H1">>}

Configs ==
    {LevelConfig(level, PyInt(10), blind, n, dets) :
        level \in {0, 1}, blind \in BOOLEAN, n \in 0..MaxSims, dets \in DetectorLists}

\* what the prior draws for the one parameter that is not fixed
ChirpMasses == {PyFloat(25), PyFloat(30)}

\* what inject_signal leaves in an interferometer's meta_data: the optimal
\* SNR and the real part of the matched-filter SNR
SnrPairs == {<<3, 4>>, <<4, 3>>}

\* the library's outputs for one event: the drawn parameter and, per
\* interferometer, the SNRs
Samples(config) ==
    [chirp_mass : ChirpMasses,
     snr : [{config.detectors[i] : i \in DOMAIN config.detectors} -> SnrPairs]]

\* dist.sample(): the prior's parameters in the prior's order.  The prior
\* starts with the parameter it draws; dist[key] = value then sets the fixed
\* ones in the order of config.fixed_parameters.
Parameters(config, sample) ==
    LET dist == DictOf(<<<<"chirp_mass", sample.chirp_mass>>>>)
        fixed == IF config.fixed_parameters.none THEN NewDict ELSE config.fixed_parameters
    IN  Update(dist, Items(fixed))

RECURSIVE SumOfSquares(_, _, _)
SumOfSquares(names, snr, which) ==
    IF names = <<>> THEN 0
    ELSE snr[Head(names)][which] * snr[Head(names)][which]
         + SumOfSquares(Tail(names), snr, which)

\* n ** 0.5 rounded to the nearest integer
RoundSqrt(n) ==
    CHOOSE r \in 0..n : (r = 0 \/ r * r - r < n) /\ n <= r * r + r

\* a plausible slip: the matched-filter SNR is not blinded
DetectorMetaLeak(config, pair) ==
    DictOf(<<<<"minimum_frequency", PyFloat(20)>>,
             <<"maximum_frequency", PyFloat(2048)>>,
             <<"optimal_snr", IF ~config.blind THEN PyFloat(pair[1]) ELSE PyNone>>,
             <<"matched_filter_snr", PyFloat(pair[2])>>>>)

\* the per-detector metadata written in the loop over the interferometers
DetectorMeta(config, pair) ==
    DictOf(<<<<"minimum_frequency", PyFloat(20)>>,
             <<"maximum_frequency", PyFloat(2048)>>,
             <<"optimal_snr", IF ~config.blind THEN PyFloat(pair[1]) ELSE PyNone>>,
             <<"matched_filter_snr", IF ~config.blind THEN PyFloat(pair[2]) ELSE PyNone>>>>)

\* the metadata of one event: the body of the loop of simulate_level_0
EventMetadata(config, sample) ==
    LET network_optimal_snr ==
            IF ~config.blind
            THEN PyFloat(RoundSqrt(SumOfSquares(config.detectors, sample.snr, 1)))
            ELSE PyNone
        network_matched_filter_snr ==
            IF ~config.blind
            THEN PyFloat(RoundSqrt(SumOfSquares(config.detectors, sample.snr, 2)))
            ELSE PyNone
    IN  [injection_parameters |->
            IF ~config.blind THEN Parameters(config, sample) ELSE NoneDict,
         waveform_kwargs |-> NewDict,
         detectors |->
            Update(NewDict,
                   [i \in DOMAIN config.detectors |->
                      <<config.detectors[i],
                        DetectorMeta(config, sample.snr[config.detectors[i]])>>]),
         seed |-> IF ~config.blind THEN config.seed ELSE PyNone,
         duration |-> config.duration,
         fixed_parameters |-> config.fixed_parameters,
         sampling_frequency |-> config.sampling_frequency,
         network_optimal_snr |-> network_optimal_snr,
         network_matched_filter_snr |-> network_matched_filter_snr]

NoConfig == LevelConfig(0, PyNone, FALSE, 0, <<>>)

\* the text of the ValueError of simulate_level_0
LevelMessage == "Config level must be 0 for level 0 simulation."

GenIdle == [pc |-> "idle", config |-> NoConfig, seeded |-> FALSE, i |-> 0, message |-> ""]

\* simulate_level_0(config): the generator object; none of its body has run
Simulate(config) ==
    /\ gen.pc = "idle"
    /\ gen' = [pc |-> "created", config |-> config, seeded |-> FALSE, i |-> 0, message |-> ""]
    /\ UNCHANGED <<all_metadata, file, saved, result, raw, parsed>>

\* a plausible slip: the level is checked after the random generator is seeded
GenRaiseSeeded ==
    /\ gen.pc = "created"
    /\ gen.config.level # 0
    /\ gen' = [gen EXCEPT !.pc = "ValueError", !.message = LevelMessage, !.seeded = TRUE]
    /\ UNCHANGED <<all_metadata, file, saved, result, raw, parsed>>

\* the first next(): the level is checked before anything else
GenRaise ==
    /\ gen.pc = "created"
    /\ gen.config.level # 0
    /\ gen' = [gen EXCEPT !.pc = "ValueError", !.message = LevelMessage]
    /\ UNCHANGED <<all_metadata, file, saved, result, raw, parsed>>

\* the first next() of a level-0 configuration: the generator is seeded and
\* the prior, the interferometers and the waveform generator are set up
GenStart ==
    /\ gen.pc = "created"
    /\ gen.config.level = 0
    /\ gen' = [gen EXCEPT !.pc = "running", !.seeded = TRUE]
    /\ UNCHANGED <<all_metadata, file, saved, result, raw, parsed>>

\* one pass of the loop: an event is drawn and (data, metadata) is yielded;
\* the caller appends the metadata to its list
GenYield ==
    /\ gen.pc = "running"
    /\ gen.i < gen.config.n_simulations
    /\ \E sample \in Samples(gen.config) :
          all_metadata' = Append(all_metadata, EventMetadata(gen.config, sample))
    /\ gen' = [gen EXCEPT !.i = gen.i + 1]
    /\ UNCHANGED <<file, saved, result, raw, parsed>>

\* the loop is over: StopIteration
GenStop ==
    /\ gen.pc = "running"
    /\ gen.i >= gen.config.n_simulations
    /\ gen' = [gen EXCEPT !.pc = "done"]
    /\ UNCHANGED <<all_metadata, file, saved, result, raw, parsed>>

(***************************************************************************)
(* The codec's operations on one destination path.                         *)
(***************************************************************************)
\* the records handed to save_metadata: events of a disclosed and of a
\* blinded configuration, and records built by hand from them
DisclosedConfig == LevelConfig(0, PyInt(10), FALSE, 1, <<"H1">>)

BlindedConfig == LevelConfig(0, PyInt(10), TRUE, 1, <<"H1">>)

OneSample == [chirp_mass |-> PyFloat(30), snr |-> [d \in {"H1"} |-> <<3, 4>>]]

Disclosed == EventMetadata(DisclosedConfig, OneSample)

Blinded == EventMetadata(BlindedConfig, OneSample)

\* waveform_kwargs = {"a": 1, "b": 2.0, "c": "x"}
Heterogeneous ==
    [Disclosed EXCEPT !.waveform_kwargs =
        DictOf(<<<<"a", PyInt(1)>>, <<"b", PyFloat(2)>>, <<"c", PyStr(1)>>>>)]

\* waveform_kwargs = {"a": [1, 2]}: a value that is no int, float or text
ListValued ==
    [Blinded EXCEPT !.waveform_kwargs = DictOf(<<<<"a", PyList>>>>)]

\* seed = "x": a value the int64 column cannot take
TextSeed == [Disclosed EXCEPT !.seed = PyStr(1)]

\* duration = None: a null for a non-nullable column
NoDuration == [Blinded EXCEPT !.duration = PyNone]

Records ==
    <<Disclosed, Blinded, Heterogeneous, ListValued, TextSeed, NoDuration>>

RECURSIVE ListsOf(_)
ListsOf(n) ==
    IF n = 0 THEN {<<>>}
    ELSE ListsOf(n - 1) \cup
         {Append(l, Records[i]) : l \in {x \in ListsOf(n - 1) : Len(x) = n - 1},
                                  i \in DOMAIN Records}

RecordLists == ListsOf(MaxRecords)

\* the row indices asked for: below, inside and above every table
Indices == (0 - 1)..MaxRecords

\* the outcome of the last call: the function, its row_index argument, how
\* it ended, for save_metadata what became of the destination, the index
\* and row count that an IndexError reports, and what was returned
Idle ==
    [op |-> "none", arg |-> 0, status |-> "ok", effect |-> "none",
     message |-> <<>>, objs |-> <<>>, rows |-> <<>>]

\* save_metadata on each list of RecordLists, tabulated
Outcome == [metadata \in RecordLists |-> save_metadata(metadata)]

\* saved is the list the file at the destination was written from
SaveMetadata(metadata) ==
    LET r == Outcome[metadata]
    IN  /\ file' = IF r.effect = "untouched" THEN file ELSE r.file
        /\ saved' = CASE r.effect = "untouched" -> saved
                      [] r.effect = "removed" -> <<>>
                      [] r.effect = "written" -> metadata
        /\ result' = [Idle EXCEPT !.op = "save_metadata", !.status = r.status,
                                  !.effect = r.effect]
        /\ UNCHANGED <<gen, all_metadata, raw, parsed>>

\* pq.read_table on a path where no file is
NotFound(op, row_index) ==
    [Idle EXCEPT !.op = op, !.arg = row_index, !.status = "FileNotFoundError"]

ReadMetadataRaw ==
    /\ result' = IF ~file.exists THEN NotFound("read_metadata_raw", 0)
                 ELSE [Idle EXCEPT !.op = "read_metadata_raw", !.rows = file.rows]
    /\ UNCHANGED <<file, saved, gen, all_metadata, raw, parsed>>

ReadSingleMetadataRaw(row_index) ==
    /\ result' = IF ~file.exists THEN NotFound("read_single_metadata_raw", row_index)
                 ELSE LET r == read_single_metadata_raw(file.rows, row_index)
                      IN  [Idle EXCEPT !.op = "read_single_metadata_raw",
                                       !.arg = row_index, !.status = r.status,
                                       !.message = r.message, !.rows = r.rows]
    /\ UNCHANGED <<file, saved, gen, all_metadata, raw, parsed>>

ReadMetadata ==
    /\ result' = IF ~file.exists THEN NotFound("read_metadata", 0)
                 ELSE LET r == read_metadata(file.rows)
                      IN  [Idle EXCEPT !.op = "read_metadata", !.status = r.status,
                                       !.objs = r.objs]
    /\ UNCHANGED <<file, saved, gen, all_metadata, raw, parsed>>

ReadSingleMetadata(row_index) ==
    /\ result' = IF ~file.exists THEN NotFound("read_single_metadata", row_index)
                 ELSE LET r == read_single_metadata(file.rows, row_index)
                      IN  [Idle EXCEPT !.op = "read_single_metadata",
                                       !.arg = row_index, !.status = r.status,
                                       !.message = r.message, !.objs = r.objs]
    /\ UNCHANGED <<file, saved, gen, all_metadata, raw, parsed>>

(***************************************************************************)
(* Rows as another writer of the schema may have stored them, for the      *)
(* decoding of one row.                                                    *)
(***************************************************************************)
SubMaps(val) ==
    {ArrowMap(<<>>), ArrowMap(<<<<"a", val>>>>), ArrowMap(<<<<"b", val>>>>),
     ArrowMap(<<<<"a", val>>, <<"b", val>>>>)}

StoredDetector(optimal, matched) ==
    ArrowMap(<<<<"minimum_frequency", PyFloat(20)>>, <<"maximum_frequency", PyFloat(2048)>>,
               <<"optimal_snr", optimal>>, <<"matched_filter_snr", matched>>>>)

RawRows ==
    [injection_parameters : {NullMap, ArrowMap(<<>>), ArrowMap(<<<<"chirp_mass", PyFloat(30)>>>>)},
     waveform_kwargs : [null : {FALSE}, ints : SubMaps(PyInt(1)),
                        floats : SubMaps(PyFloat(2)), strings : SubMaps(PyStr(1))],
     seed : {PyNone, PyInt(10)},
     detectors : {ArrowMap(<<>>),
                  ArrowMap(<<<<"H1", StoredDetector(PyNone, PyNone)>>>>),
                  ArrowMap(<<<<"H1", StoredDetector(PyFloat(3), PyFloat(4))>>>>)},
     duration : {PyFloat(4)},
     sampling_frequency : {PyFloat(2048)},
     network_optimal_snr : {PyNone, PyFloat(3)},
     network_matched_filter_snr : {PyNone}]

\* _parse_metadata_dict(raw): it has no raise, so it returns
ParseRow ==
    /\ parsed = <<>>
    /\ parsed' = <<[status |-> "ok", value |-> _parse_metadata_dict(raw)]>>
    /\ UNCHANGED <<file, saved, result, gen, all_metadata, raw>>

(***************************************************************************)
(* The command line (cli.py): main writes injection_metadata.parquet.      *)
(***************************************************************************)
\* the levels level_registry has a configuration class for
level_registry == {0, 1}

\* the levels simulate_registry has a simulation function for
simulate_registry == {0}

\* the values given to --level
Levels == 0..2

\* what the file given to --config holds
ConfigData ==
    [seed : {PyInt(10)}, blind : BOOLEAN, n_simulations : 0..MaxSims,
     detectors : DetectorLists]

\* LevelConfigClass.model_validate(config_data)
ModelValidate(level, data) ==
    LevelConfig(level, data.seed, data.blind, data.n_simulations, data.detectors)

\* from_pylist's reading of a row that is a list of records and no dict:
\* `n in row` compares the field's name with each record, finds none equal,
\* and the row's entry for every field of the schema is None
ListAsRow(row) ==
    [n \in SchemaNames |-> IF IsLeaf(SchemaField(n).type) THEN PyNone ELSE NoneDict]

\* main up to the loop: the configuration class of the level is looked up
\* (KeyError for a level without one), the configuration is validated, the
\* simulation function is looked up (ValueError when there is none) and
\* called, which creates the generator
CliMain(level, data) ==
    /\ result = Idle
    /\ gen.pc = "idle"
    /\ IF level \notin level_registry
       THEN /\ result' = [Idle EXCEPT !.op = "main", !.arg = level, !.status = "KeyError"]
            /\ UNCHANGED gen
       ELSE IF level \notin simulate_registry
       THEN /\ result' = [Idle EXCEPT !.op = "main", !.arg = level, !.status = "ValueError"]
            /\ UNCHANGED gen
       ELSE /\ result' = [Idle EXCEPT !.op = "main", !.arg = level, !.status = "running"]
            /\ gen' = [pc |-> "created", config |-> ModelValidate(level, data),
                       seeded |-> FALSE, i |-> 0, message |-> ""]
    /\ UNCHANGED <<all_metadata, file, saved, raw, parsed>>

\* main after the loop: the list of all records is handed to from_pylist as
\* the one row of the table, and the table is written
CliWrite ==
    /\ result.op = "main"
    /\ result.status = "running"
    /\ gen.pc = "done"
    /\ LET conv == FromPylist(<<ListAsRow(all_metadata)>>)
           w == WriteTable(conv.table)
       IN  /\ file' = IF ~conv.ok THEN file ELSE w.file
           /\ result' = [result EXCEPT
                           !.status = IF conv.ok /\ w.ok THEN "ok" ELSE "ArrowInvalid",
                           !.effect = CASE ~conv.ok -> "untouched"
                                        [] ~w.ok -> "removed"
                                        [] OTHER -> "written"]
    /\ UNCHANGED <<gen, all_metadata, saved, raw, parsed>>

(***************************************************************************)
(* Specifications.                                                         *)
(***************************************************************************)
\* the codec: saving and reading on one path
Init ==
    /\ file = NoFile
    /\ saved = <<>>
    /\ result = Idle
    /\ gen = GenIdle
    /\ all_metadata = <<>>
    /\ raw = <<>>
    /\ parsed = <<>>

Next ==
    \/ \E metadata \in RecordLists : SaveMetadata(metadata)
    \/ ReadMetadataRaw
    \/ \E i \in Indices : ReadSingleMetadataRaw(i)
    \/ ReadMetadata
    \/ \E i \in Indices : ReadSingleMetadata(i)

Spec == Init /\ [][Next]_vars

\* the generator of simulate_level_0 and a caller collecting its metadata
NextSim ==
    \/ \E config \in Configs : Simulate(config)
    \/ GenRaise
    \/ GenStart
    \/ GenYield
    \/ GenStop

SpecSim == Init /\ [][NextSim]_vars

\* the decoding of one stored row
InitParse ==
    /\ file = NoFile
    /\ saved = <<>>
    /\ result = Idle
    /\ gen = GenIdle
    /\ all_metadata = <<>>
    /\ raw \in RawRows
    /\ parsed = <<>>

NextParse == ParseRow

SpecParse == InitParse /\ [][NextParse]_vars

\* a run of the command line: main and the generator it drives
NextCli ==
    \/ \E level \in Levels, data \in ConfigData : CliMain(level, data)
    \/ GenStart
    \/ GenYield
    \/ GenStop
    \/ CliWrite

SpecCli == Init /\ [][NextCli]_vars

(***************************************************************************)
(* Properties.                                                             *)
(***************************************************************************)
\* a record whose fields have the types the dataclass declares
ValidRecord(m) ==
    /\ \A k \in DOMAIN m.waveform_kwargs.d : m.waveform_kwargs.d[k].t \in {"int", "float", "str"}
    /\ m.seed.t = "int"
    /\ m.duration.t = "float"
    /\ m.sampling_frequency.t = "float"

ValidList(l) == \A i \in DOMAIN l : ValidRecord(l[i])

\* the fields the blinding flag governs are all None
AllAbsent(m) ==
    /\ m.injection_parameters.none
    /\ m.seed = PyNone
    /\ m.network_optimal_snr = PyNone
    /\ m.network_matched_filter_snr = PyNone
    /\ \A d \in DOMAIN m.detectors.d :
          /\ m.detectors.d[d].d["optimal_snr"] = PyNone
          /\ m.detectors.d[d].d["matched_filter_snr"] = PyNone

\* the fields the blinding flag governs are all there
AllPresent(m) ==
    /\ ~m.injection_parameters.none
    /\ m.seed # PyNone
    /\ m.network_optimal_snr # PyNone
    /\ m.network_matched_filter_snr # PyNone
    /\ \A d \in DOMAIN m.detectors.d :
          /\ m.detectors.d[d].d["optimal_snr"] # PyNone
          /\ m.detectors.d[d].d["matched_filter_snr"] # PyNone

\* C1: read_metadata on the file save_metadata wrote from a list of valid
\* records returns a list of the same length whose i-th element equals the
\* i-th record, field by field.
C1_RoundTrip ==
    (result.op = "read_metadata" /\ file.exists /\ ValidList(saved)) =>
        /\ result.status = "ok"
        /\ Len(result.objs) = Len(saved)
        /\ \A i \in DOMAIN saved : MetaEq(result.objs[i], saved[i])

\* C2: read_single_metadata(file, i) with 0 <= i < number of records equals
\* records[i] and read_metadata(file)[i].
C2_SingleRow ==
    (/\ result.op = "read_single_metadata"
     /\ file.exists
     /\ ValidList(saved)
     /\ 0 <= result.arg
     /\ result.arg < Len(saved)) =>
        /\ result.status = "ok"
        /\ Len(result.objs) = 1
        /\ MetaEq(result.objs[1], saved[result.arg + 1])
        /\ read_metadata(file.rows).status = "ok"
        /\ MetaEq(result.objs[1], read_metadata(file.rows).objs[result.arg + 1])

\* C3: on a stored table of N rows a single-row read with an index < 0 or
\* >= N raises an IndexError that reports the index and N and returns no
\* record; with an index in [0, N) it never raises that error.
C3_OutOfRange ==
    (result.op \in {"read_single_metadata", "read_single_metadata_raw"} /\ file.exists) =>
        IF result.arg < 0 \/ result.arg >= Len(file.rows)
        THEN /\ result.status = "IndexError"
             /\ result.message = <<result.arg, Len(file.rows)>>
             /\ result.objs = <<>>
             /\ result.rows = <<>>
        ELSE result.status # "IndexError"

\* an index equal to the row count of a non-empty table was turned away
C3_Witness ==
    /\ result.op = "read_single_metadata"
    /\ file.exists
    /\ Len(file.rows) > 0
    /\ result.arg = Len(file.rows)
    /\ result.status = "IndexError"

\* C4: in every record simulate_level_0 yields, the blinded fields are all
\* None when config.blind is true and all present when it is false.
C4_JointBlinding ==
    \A i \in DOMAIN all_metadata :
        IF gen.config.blind THEN AllAbsent(all_metadata[i])
        ELSE AllPresent(all_metadata[i])

\* two events of a blinded configuration with two detectors were yielded
C4_Witness ==
    /\ gen.config.blind
    /\ gen.config.detectors = <<"H1", "L1">>
    /\ Len(all_metadata) = 2

\* C5: a record built with blinding active, saved and read back (with
\* read_metadata or read_single_metadata), has the blinded fields absent and
\* each detector's minimum_frequency and maximum_frequency present.
C5_BlindedRoundTrip ==
    (/\ result.op \in {"read_metadata", "read_single_metadata"}
     /\ file.exists
     /\ \A i \in DOMAIN saved : saved[i] = Blinded
     /\ result.status # "IndexError"
     /\ saved # <<>>) =>
        /\ result.status = "ok"
        /\ \A j \in DOMAIN result.objs :
              LET k == IF result.op = "read_metadata" THEN j ELSE result.arg + 1
              IN  AllAbsent(saved[k]) =>
                    /\ AllAbsent(result.objs[j])
                    /\ \A d \in DOMAIN result.objs[j].detectors.d :
                          /\ result.objs[j].detectors.d[d].d["minimum_frequency"] # PyNone
                          /\ result.objs[j].detectors.d[d].d["maximum_frequency"] # PyNone

IsEmptyMap(m) == ~m.null /\ m.items = <<>>

\* C6 as stated: a stored empty map for injection_parameters or detectors
\* decodes to {} and never to None; a stored null injection_parameters
\* decodes to None and never to {}.
C6_EmptyIsNotAbsent ==
    parsed # <<>> =>
        /\ IsEmptyMap(raw.injection_parameters) =>
              parsed[1].value["injection_parameters"] = NewDict
        /\ IsEmptyMap(raw.detectors) => parsed[1].value["detectors"] = NewDict
        /\ raw.injection_parameters.null => parsed[1].value["injection_parameters"] = NoneDict

\* C6, amended: a stored empty detectors map decodes to {} and never to
\* None; a stored injection_parameters that is null or an empty map decodes
\* to None; a stored non-empty one decodes to the dict of its items.
C6_EmptyInjectionIsNone ==
    parsed # <<>> =>
        /\ IsEmptyMap(raw.detectors) => parsed[1].value["detectors"] = NewDict
        /\ (raw.injection_parameters.null \/ IsEmptyMap(raw.injection_parameters)) =>
              parsed[1].value["injection_parameters"] = NoneDict
        /\ Truthy(raw.injection_parameters) =>
              parsed[1].value["injection_parameters"] = DictOf(raw.injection_parameters.items)

\* a row whose injection_parameters and detectors are both empty maps was decoded
C6_Witness ==
    /\ parsed # <<>>
    /\ IsEmptyMap(raw.injection_parameters)
    /\ IsEmptyMap(raw.detectors)

\* C7: a waveform_kwargs of int, float and text values, saved and decoded,
\* has the same keys and per key the same value of the same type.
C7_HeterogeneousFidelity ==
    file.exists =>
        \A i \in DOMAIN saved :
            ValidRecord(saved[i]) =>
                OptDictEq(_parse_metadata_dict(file.rows[i])["waveform_kwargs"],
                          saved[i].waveform_kwargs)

Keys(m) == {m.items[i][1] : i \in DOMAIN m.items}

\* a key in more than one of the typed sub-maps
Collides(w) ==
    \/ Keys(w.ints) \cap Keys(w.floats) # {}
    \/ Keys(w.ints) \cap Keys(w.strings) # {}
    \/ Keys(w.floats) \cap Keys(w.strings) # {}

\* C8: decoding a row whose waveform_kwargs has a key in more than one typed
\* sub-map fails with a CorruptData error; no sub-map's value silently wins.
C8_CollisionIsCorruptData ==
    (parsed # <<>> /\ Collides(raw.waveform_kwargs)) => parsed[1].status = "CorruptData"

\* C9: save_metadata fails whenever a record has a waveform_kwargs value that
\* is no int, float or text: a save that succeeded had no such value.
C9_SchemaViolation ==
    (result.op = "save_metadata" /\ result.status = "ok") =>
        \A i \in DOMAIN saved :
            \A k \in DOMAIN saved[i].waveform_kwargs.d :
                saved[i].waveform_kwargs.d[k].t \in {"int", "float", "str"}

\* C10 as stated: when save_metadata fails, the destination is as it was
\* before the call (no file produced, an existing file unmodified).
C10_FailureLeavesDestination ==
    [][(result'.op = "save_metadata" /\ result'.status # "ok") => file' = file]_vars

\* C10, amended: when save_metadata fails in the conversion of the batch,
\* the destination is as it was before the call; when it fails in the write,
\* no file is at the destination afterwards.  No failure leaves a file other
\* than the one that was there.
C10_FailureLeavesNoPartialFile ==
    [][(result'.op = "save_metadata" /\ result'.status # "ok") =>
          /\ result'.effect \in {"untouched", "removed"}
          /\ result'.effect = "untouched" => file' = file
          /\ result'.effect = "removed" => file' = NoFile
          /\ file' = file \/ ~file'.exists]_vars

\* a failed save_metadata left the file that was at the destination in place
C10_Witness ==
    /\ result.op = "save_metadata"
    /\ result.status # "ok"
    /\ file.exists
    /\ Len(file.rows) > 0

\* C12: the generator of simulate_level_0 for a config whose level is not 0
\* raises the ValueError with its message on the first request for an event:
\* it is never running or done, the random generator is never seeded, no
\* parameters are sampled and no (data, metadata) pair is yielded.
C12_LevelCheckedFirst ==
    gen.config.level # 0 =>
        /\ gen.pc \in {"created", "ValueError"}
        /\ (gen.pc = "ValueError" => gen.message = LevelMessage)
        /\ ~gen.seeded
        /\ gen.i = 0
        /\ all_metadata = <<>>

\* the first request on a level-1 configuration asking for two events raised
C12_Witness ==
    /\ gen.pc = "ValueError"
    /\ gen.config.level = 1
    /\ gen.config.n_simulations = 2
    /\ gen.message = LevelMessage

\* C11: when main has ended for level 0 and a configuration of n_simulations
\* = n, it has ended well and the metadata file holds a table of exactly n
\* rows, row i being the stored form of the i-th record the generator yielded.
C11_MainWritesRows ==
    (result.op = "main" /\ result.arg = 0 /\ result.status # "running") =>
        /\ result.status = "ok"
        /\ file.exists
        /\ Len(file.rows) = gen.config.n_simulations
        /\ Len(all_metadata) = gen.config.n_simulations
        /\ file.rows = save_metadata(all_metadata).file.rows

\* the typed sub-map for a value of waveform_kwargs, by the value's type
CategoryOf(x) ==
    CASE x.t = "int" -> "ints"
      [] x.t = "float" -> "floats"
      [] x.t = "str" -> "strings"

\* C13: in every row save_metadata stored from a valid record, each key of
\* waveform_kwargs is in the typed sub-map of its value's type and in no
\* other, and each of the three sub-maps is stored as a map, empty when it
\* received no key, never as a null.
C13_TypedPartition ==
    (file.exists /\ ValidList(saved)) =>
        \A i \in DOMAIN saved :
            LET stored == file.rows[i].waveform_kwargs
                kwargs == saved[i].waveform_kwargs.d
            IN  /\ Len(file.rows) = Len(saved)
                /\ \A c \in {"ints", "floats", "strings"} :
                      /\ ~stored[c].null
                      /\ Keys(stored[c]) = {k \in DOMAIN kwargs : CategoryOf(kwargs[k]) = c}

=============================================================================
